---------------------------- MODULE Spec2Model ----------------------------
(***************************************************************************)
(* A model of the Mandelbrot plotter of src/src/main.rs: the command line  *)
(* (main), the coordinate-pair parser (parse_pair, parse_complex), the     *)
(* pixel-to-plane mapping (lerp, pixel_to_point), the escape-time test     *)
(* (escape_time), the renderer (render) and the PNG writer (write_image).  *)
(*                                                                         *)
(* Numbers.  An f64 is an IEEE 754 binary64 value: a record with its sign, *)
(* its odd significand and its exponent, or an infinity, or NaN; every     *)
(* operation rounds its exact result to nearest, ties to even.  A usize    *)
(* has 64 bits.  The image's dimensions, which the command line may set to *)
(* any usize, are natural numbers of any size (sequences of limbs); loop   *)
(* counters, escape counts and buffer indices, which the program keeps     *)
(* below the length of a buffer or below the iteration limit, are integers *)
(* of the model.  u8 values are taken modulo 2^8.                          *)
(*                                                                         *)
(* Strings are sequences of bytes.  The byte of an ASCII character is      *)
(* written as that character ("x"); any other byte is written as its two   *)
(* hexadecimal digits ("C3").                                              *)
(***************************************************************************)
EXTENDS Integers, Sequences, FiniteSets

VARIABLES
    pc,           \* position of the program (or of the function under test)
    args,         \* the command line: the program name and the arguments
    build,        \* how the program was built: overflow checks on or off
    bounds,       \* `bounds`: <<width, height>>
    upper_left,   \* `upper_left`
    lower_right,  \* `lower_right`
    pixels,       \* the intensity buffer
    x, y,         \* render's loop counters
    c, limit,     \* escape_time's parameters
    z, i,         \* escape_time's locals
    et,           \* the value escape_time returned last (None before any)
    ret_to,       \* where escape_time returns to
    updates,      \* history: the updates of z the running call has made
    writes,       \* history: the buffer writes render made, in order
    file,         \* the content of FILE on disk
    status,       \* how the process ended
    stderr,       \* what the process reported on standard error
    call,         \* the pure function under test and its arguments
    ret           \* what it returned

vars == <<pc, args, build, bounds, upper_left, lower_right, pixels, x, y, c,
          limit, z, i, et, ret_to, updates, writes, file, status, stderr,
          call, ret>>

\* main's and render's parameters and locals other than the buffer
inputVars == <<args, build, bounds, upper_left, lower_right>>

\* escape_time's frame
escapeVars == <<c, limit, z, i, et, ret_to, updates>>

\* the pure-function harness
callVars == <<call, ret>>

---------------------------------------------------------------------------
(* Option<T> *)

None == << >>

Some(v) == <<v>>

IsSome(o) == Len(o) = 1

Unwrap(o) == o[1]

\* no call, no result (the harnesses of the pure functions)
Null == "null"

---------------------------------------------------------------------------
(* Natural numbers of any size (usize and the significands of f64):       *)
(* sequences of limbs in base 2^15, least significant first, no leading   *)
(* zero limb; << >> is 0.                                                 *)

Base == 32768

LimbBits == 15

RECURSIVE Pow2(_)
Pow2(k) == IF k = 0 THEN 1 ELSE 2 * Pow2(k - 1)

\* a without its leading zero limbs
BigNorm(a) ==
    LET nz == {j \in 1..Len(a) : a[j] # 0}
    IN  IF nz = {} THEN << >>
        ELSE SubSeq(a, 1, CHOOSE j \in nz : \A k \in nz : k <= j)

\* the limbs of a natural number n < 2^31
RECURSIVE Big(_)
Big(n) == IF n = 0 THEN << >> ELSE <<n % Base>> \o Big(n \div Base)

\* the number a denotes, a < 2^30
RECURSIVE BigToNat(_)
BigToNat(a) == IF a = << >> THEN 0 ELSE a[1] + Base * BigToNat(Tail(a))

Limb(a, k) == IF k <= Len(a) THEN a[k] ELSE 0

\* limbs lo..hi of a + b with the carry into lo; v the limbs, c the carry out
RECURSIVE AddRange(_, _, _, _, _)
AddRange(a, b, lo, hi, carry) ==
    IF lo = hi
    THEN LET t == Limb(a, lo) + Limb(b, lo) + carry
         IN  [v |-> <<t % Base>>, c |-> t \div Base]
    ELSE LET mid  == (lo + hi) \div 2
             low  == AddRange(a, b, lo, mid, carry)
             high == AddRange(a, b, mid + 1, hi, low.c)
         IN  [v |-> low.v \o high.v, c |-> high.c]

\* the limbs r.v with the carry r.c on top
WithCarry(r) == IF r.c = 0 THEN r.v ELSE Append(r.v, r.c)

BigAdd(a, b) ==
    IF a = << >> THEN b
    ELSE IF b = << >> THEN a
    ELSE WithCarry(AddRange(a, b, 1,
                            IF Len(a) > Len(b) THEN Len(a) ELSE Len(b), 0))

\* limbs lo..hi of a - b with the borrow into lo
RECURSIVE SubRange(_, _, _, _, _)
SubRange(a, b, lo, hi, borrow) ==
    IF lo = hi
    THEN LET t == a[lo] - Limb(b, lo) - borrow
         IN  IF t < 0 THEN [v |-> <<t + Base>>, c |-> 1]
             ELSE [v |-> <<t>>, c |-> 0]
    ELSE LET mid  == (lo + hi) \div 2
             low  == SubRange(a, b, lo, mid, borrow)
             high == SubRange(a, b, mid + 1, hi, low.c)
         IN  [v |-> low.v \o high.v, c |-> high.c]

\* a - b, for a >= b
BigSub(a, b) ==
    IF a = << >> THEN << >> ELSE BigNorm(SubRange(a, b, 1, Len(a), 0).v)

\* -1, 0, 1 as a < b, a = b, a > b
BigCmp(a, b) ==
    IF Len(a) < Len(b) THEN -1
    ELSE IF Len(a) > Len(b) THEN 1
    ELSE LET df == {j \in 1..Len(a) : a[j] # b[j]}
             hi == CHOOSE j \in df : \A k \in df : k <= j
         IN  IF df = {} THEN 0 ELSE IF a[hi] < b[hi] THEN -1 ELSE 1

\* limbs lo..hi of a * d with the carry into lo
RECURSIVE MulSmallRange(_, _, _, _, _)
MulSmallRange(a, d, lo, hi, carry) ==
    IF lo = hi
    THEN LET t == a[lo] * d + carry
         IN  [v |-> <<t % Base>>, c |-> t \div Base]
    ELSE LET mid  == (lo + hi) \div 2
             low  == MulSmallRange(a, d, lo, mid, carry)
             high == MulSmallRange(a, d, mid + 1, hi, low.c)
         IN  [v |-> low.v \o high.v, c |-> high.c]

\* a * d, for d < 2^15
BigMulSmall(a, d) ==
    IF d = 0 \/ a = << >> THEN << >>
    ELSE WithCarry(MulSmallRange(a, d, 1, Len(a), 0))

\* a * 2^(15 n)
ShiftLimbs(a, n) == IF a = << >> THEN << >> ELSE [j \in 1..n |-> 0] \o a

\* a times the limbs lo..hi of b, each at its place
RECURSIVE MulRange(_, _, _, _)
MulRange(a, b, lo, hi) ==
    IF lo = hi THEN ShiftLimbs(BigMulSmall(a, b[lo]), lo - 1)
    ELSE LET mid == (lo + hi) \div 2
         IN  BigAdd(MulRange(a, b, lo, mid), MulRange(a, b, mid + 1, hi))

BigMul(a, b) ==
    IF a = << >> \/ b = << >> THEN << >> ELSE MulRange(a, b, 1, Len(b))

\* a * 2^n
BigShl(a, n) ==
    ShiftLimbs(BigMulSmall(a, Pow2(n % LimbBits)), n \div LimbBits)

\* floor(a / 2^n)
BigShr(a, n) ==
    LET q == n \div LimbBits
        r == n % LimbBits
        d == IF Len(a) > q THEN SubSeq(a, q + 1, Len(a)) ELSE << >>
    IN  BigNorm([j \in 1..Len(d) |->
                    (d[j] \div Pow2(r))
                        + (Limb(d, j + 1) % Pow2(r)) * Pow2(LimbBits - r)])

RECURSIVE BitLenSmall(_)
BitLenSmall(d) == IF d = 0 THEN 0 ELSE 1 + BitLenSmall(d \div 2)

\* the number of bits of a (0 for 0)
BigBitLen(a) ==
    IF a = << >> THEN 0
    ELSE LimbBits * (Len(a) - 1) + BitLenSmall(a[Len(a)])

RECURSIVE TrailingZerosSmall(_)
TrailingZerosSmall(d) ==
    IF d % 2 = 1 THEN 0 ELSE 1 + TrailingZerosSmall(d \div 2)

\* the number of zero bits below the lowest one bit of a, a # 0
BigTrailingZeros(a) ==
    LET lo == CHOOSE j \in 1..Len(a) : a[j] # 0 /\ \A k \in 1..(j - 1) : a[k] = 0
    IN  LimbBits * (lo - 1) + TrailingZerosSmall(a[lo])

\* bit k of a (bit 0 is the lowest)
BigBit(a, k) ==
    (Limb(a, k \div LimbBits + 1) \div Pow2(k % LimbBits)) % 2

\* the largest q < 2^15 with d * q <= r, found bit by bit from the top
RECURSIVE QuotDigit(_, _, _, _)
QuotDigit(r, d, q, b) ==
    IF b < 0 THEN q
    ELSE IF BigCmp(BigMulSmall(d, q + Pow2(b)), r) <= 0
         THEN QuotDigit(r, d, q + Pow2(b), b - 1)
         ELSE QuotDigit(r, d, q, b - 1)

\* the quotient digit qd of r by d, and the remainder
DivDigit(r, d, qd) == [q |-> <<qd>>, r |-> BigSub(r, BigMulSmall(d, qd))]

\* one step of the long division: r, below d * 2^15, divided by d
DivLimb(r, d) == DivDigit(r, d, QuotDigit(r, d, 0, LimbBits - 1))

\* long division of the limbs hi down to lo of n by d, r the remainder so far;
\* q holds the quotient's limbs from the most significant down
RECURSIVE DivRange(_, _, _, _, _)
DivRange(n, d, hi, lo, r) ==
    IF hi = lo THEN DivLimb(BigNorm(<<n[hi]>> \o r), d)
    ELSE LET mid  == (lo + hi) \div 2
             high == DivRange(n, d, hi, mid + 1, r)
             low  == DivRange(n, d, mid, lo, high.r)
         IN  [q |-> high.q \o low.q, r |-> low.r]

\* quotient and remainder of n by d, d # 0
\* the result res of the long division, its quotient turned round
DivResult(res) ==
    [q |-> BigNorm([j \in 1..Len(res.q) |-> res.q[Len(res.q) + 1 - j]]),
     r |-> res.r]

BigDivMod(n, d) ==
    IF n = << >> THEN [q |-> << >>, r |-> << >>]
    ELSE DivResult(DivRange(n, d, Len(n), 1, << >>))

\* 10^k
RECURSIVE BigPow10(_)
BigPow10(k) ==
    IF k = 0 THEN <<1>>
    ELSE LET h == BigPow10(k \div 2)
         IN  BigMulSmall(BigMul(h, h), IF k % 2 = 0 THEN 1 ELSE 10)

---------------------------------------------------------------------------
(* f64: IEEE 754 binary64 with round-to-nearest-even.  A value is a       *)
(* record: k is "fin", "inf" or "nan"; s is the sign bit; a finite        *)
(* nonzero value is (-1)^s * m * 2^e with m odd; zero has m = << >>.      *)
(* Every result of an operation is the exact result rounded to 53 bits,   *)
(* with subnormals below 2^-1022 and overflow to infinity.                *)

Precision == 53

MinExp == -1074

MaxTop == 1023

\* a term more than Precision + Guard bits below the other leaves it unchanged
Guard == 8

Zero(s) == [k |-> "fin", s |-> s, m |-> << >>, e |-> 0]

Inf(s) == [k |-> "inf", s |-> s, m |-> << >>, e |-> 0]

NaN == [k |-> "nan", s |-> 0, m |-> << >>, e |-> 0]

IsNaN(a) == a.k = "nan"

IsInf(a) == a.k = "inf"

IsZero(a) == a.k = "fin" /\ a.m = << >>

IsFinite(a) == a.k = "fin"

\* the finite value (-1)^s * m * 2^e in its unique form
Finite(s, m, e) ==
    IF m = << >> THEN Zero(s)
    ELSE LET tz == BigTrailingZeros(m)
         IN  [k |-> "fin", s |-> s, m |-> BigShr(m, tz), e |-> e + tz]

\* the exponent of the highest bit of m * 2^e
Top(m, e) == e + BigBitLen(m) - 1

\* the exponent of the last bit a value keeps whose highest bit is at top
Quantum(top) ==
    IF top - (Precision - 1) >= MinExp THEN top - (Precision - 1) ELSE MinExp

\* the rounded significand r at exponent q: it may have reached 2^1024
Rounded(s, r, q) ==
    IF r = << >> THEN Zero(s)
    ELSE IF Top(r, q) > MaxTop THEN Inf(s)
    ELSE Finite(s, r, q)

\* hi, the bits kept, goes up when the first bit dropped is 1 and either a
\* lower bit is 1 or hi is odd
TiesToEven(hi, half, sticky) ==
    IF half /\ (sticky \/ BigBit(hi, 0) = 1) THEN BigAdd(hi, <<1>>) ELSE hi

\* m * 2^e with the bits below 2^q dropped, q > e
DropBits(s, m, q, sh) ==
    Rounded(s, TiesToEven(BigShr(m, sh), BigBit(m, sh - 1) = 1,
                          BigTrailingZeros(m) < sh - 1), q)

\* m * 2^e rounded to a multiple of 2^q
RoundAt(s, m, e, q) ==
    IF e >= q THEN Finite(s, m, e) ELSE DropBits(s, m, q, q - e)

\* m * 2^e, m # 0, whose highest bit is at top
RoundTop(s, m, e, top) ==
    IF top > MaxTop THEN Inf(s) ELSE RoundAt(s, m, e, Quantum(top))

\* the f64 nearest to (-1)^s * m * 2^e, ties to even
Round(s, m, e) == IF m = << >> THEN Zero(s) ELSE RoundTop(s, m, e, Top(m, e))

\* the quotient dm.q with one more bit below: 1 when the division left a
\* remainder
WithSticky(dm) ==
    BigAdd(BigShl(dm.q, 1), IF dm.r = << >> THEN << >> ELSE <<1>>)

\* how far n is shifted for its quotient by d to have Precision + 2 bits
RatioShift(n, d) ==
    LET gap == (Precision + 2) + BigBitLen(d) - BigBitLen(n)
    IN  IF gap > 0 THEN gap ELSE 0

RatioAt(s, n, d, e, sh) ==
    Round(s, WithSticky(BigDivMod(BigShl(n, sh), d)), e - sh - 1)

\* the f64 nearest to (-1)^s * (n / d) * 2^e, d # 0
RoundRatio(s, n, d, e) ==
    IF n = << >> THEN Zero(s) ELSE RatioAt(s, n, d, e, RatioShift(n, d))

\* `n as f64`, `n` an integer of the model
FromInt(n) == Round(IF n < 0 THEN 1 ELSE 0, Big(IF n < 0 THEN -n ELSE n), 0)

\* `n as f64`, n a usize
FromUsize(n) == Round(0, n, 0)

Xor(s, t) == (s + t) % 2

FNeg(a) == IF IsNaN(a) THEN NaN ELSE [a EXCEPT !.s = 1 - a.s]

\* -1, 0, 1 as |a| < |b|, |a| = |b|, |a| > |b|; a and b finite
CmpMag(a, b) ==
    IF a.m = << >> THEN (IF b.m = << >> THEN 0 ELSE -1)
    ELSE IF b.m = << >> THEN 1
    ELSE LET ta == Top(a.m, a.e)
             tb == Top(b.m, b.e)
             lo == IF a.e < b.e THEN a.e ELSE b.e
         IN  IF ta < tb THEN -1
             ELSE IF ta > tb THEN 1
             ELSE BigCmp(BigShl(a.m, a.e - lo), BigShl(b.m, b.e - lo))

\* -1, 0, 1 as a < b, a = b, a > b; neither is NaN
Cmp(a, b) ==
    LET sgn(v) == IF IsZero(v) THEN 0 ELSE IF v.s = 0 THEN 1 ELSE -1
    IN  IF sgn(a) # sgn(b) THEN (IF sgn(a) < sgn(b) THEN -1 ELSE 1)
        ELSE IF sgn(a) = 0 THEN 0
        ELSE IF IsInf(a) THEN (IF IsInf(b) THEN 0 ELSE sgn(a))
        ELSE IF IsInf(b) THEN -sgn(a)
        ELSE sgn(a) * CmpMag(a, b)

\* a > b
FGt(a, b) == ~IsNaN(a) /\ ~IsNaN(b) /\ Cmp(a, b) = 1

\* a == b
FEq(a, b) == ~IsNaN(a) /\ ~IsNaN(b) /\ Cmp(a, b) = 0

\* (-1)^sa * am + (-1)^sb * bm, times 2^lo; cmp compares am with bm
AddMag(sa, sb, am, bm, lo, cmp) ==
    IF sa # sb /\ cmp = 0 THEN Zero(0)
    ELSE Round(IF sa = sb \/ cmp = 1 THEN sa ELSE sb,
               IF sa = sb THEN BigAdd(am, bm)
               ELSE IF cmp = 1 THEN BigSub(am, bm) ELSE BigSub(bm, am),
               lo)

AddAligned(sa, sb, am, bm, lo) == AddMag(sa, sb, am, bm, lo, BigCmp(am, bm))

\* a + b, both finite and not zero, as multiples of 2^lo
AddAt(a, b, lo) ==
    AddAligned(a.s, b.s, BigShl(a.m, a.e - lo), BigShl(b.m, b.e - lo), lo)

\* a + b
FAdd(a, b) ==
    IF IsNaN(a) \/ IsNaN(b) THEN NaN
    ELSE IF IsInf(a) THEN (IF IsInf(b) /\ a.s # b.s THEN NaN ELSE a)
    ELSE IF IsInf(b) THEN b
    ELSE IF IsZero(a) /\ IsZero(b) THEN Zero(IF a.s = 1 /\ b.s = 1 THEN 1 ELSE 0)
    ELSE IF IsZero(a) THEN b
    ELSE IF IsZero(b) THEN a
    ELSE IF Top(a.m, a.e) - Top(b.m, b.e) > Precision + Guard THEN a
    ELSE IF Top(b.m, b.e) - Top(a.m, a.e) > Precision + Guard THEN b
    ELSE AddAt(a, b, IF a.e < b.e THEN a.e ELSE b.e)

\* a - b
FSub(a, b) == FAdd(a, FNeg(b))

\* a * b
FMul(a, b) ==
    IF IsNaN(a) \/ IsNaN(b) THEN NaN
    ELSE IF (IsInf(a) /\ IsZero(b)) \/ (IsZero(a) /\ IsInf(b)) THEN NaN
    ELSE IF IsInf(a) \/ IsInf(b) THEN Inf(Xor(a.s, b.s))
    ELSE IF IsZero(a) \/ IsZero(b) THEN Zero(Xor(a.s, b.s))
    ELSE Round(Xor(a.s, b.s), BigMul(a.m, b.m), a.e + b.e)

\* a / b
FDiv(a, b) ==
    IF IsNaN(a) \/ IsNaN(b) THEN NaN
    ELSE IF (IsInf(a) /\ IsInf(b)) \/ (IsZero(a) /\ IsZero(b)) THEN NaN
    ELSE IF IsInf(a) \/ IsZero(b) THEN Inf(Xor(a.s, b.s))
    ELSE IF IsInf(b) \/ IsZero(a) THEN Zero(Xor(a.s, b.s))
    ELSE RoundRatio(Xor(a.s, b.s), a.m, b.m, a.e - b.e)

---------------------------------------------------------------------------
(* num::Complex<f64> *)

Cx(re, im) == [re |-> re, im |-> im]

\* Complex::norm_sqr
norm_sqr(zz) == FAdd(FMul(zz.re, zz.re), FMul(zz.im, zz.im))

\* Complex * Complex
CMul(a, b) == Cx(FSub(FMul(a.re, b.re), FMul(a.im, b.im)),
                 FAdd(FMul(a.re, b.im), FMul(a.im, b.re)))

\* Complex + Complex
CAdd(a, b) == Cx(FAdd(a.re, b.re), FAdd(a.im, b.im))

---------------------------------------------------------------------------
(* FromStr for the numeric types the program parses *)

Digits == {"0", "1", "2", "3", "4", "5", "6", "7", "8", "9"}

DigitVal(ch) ==
    CASE ch = "0" -> 0 [] ch = "1" -> 1 [] ch = "2" -> 2 [] ch = "3" -> 3
      [] ch = "4" -> 4 [] ch = "5" -> 5 [] ch = "6" -> 6 [] ch = "7" -> 7
      [] ch = "8" -> 8 [] ch = "9" -> 9

AllDigits(s) == \A k \in 1..Len(s) : s[k] \in Digits

\* the number the decimal digits lo..hi of s denote
RECURSIVE DecRange(_, _, _)
DecRange(s, lo, hi) ==
    IF lo > hi THEN << >>
    ELSE IF lo = hi THEN Big(DigitVal(s[lo]))
    ELSE LET mid == (lo + hi) \div 2
         IN  BigAdd(BigMul(DecRange(s, lo, mid), BigPow10(hi - mid)),
                    DecRange(s, mid + 1, hi))

\* the number a sequence of decimal digits denotes (0 for the empty one)
DecVal(s) == DecRange(s, 1, Len(s))

\* how many digits stand in s from position k on, before anything else
DigitRun(s, k) ==
    LET stops == {j \in k..Len(s) : s[j] \notin Digits}
    IN  IF stops = {} THEN Len(s) - k + 1
        ELSE (CHOOSE j \in stops : \A n \in stops : j <= n) - k

\* the pointer width of the target
UsizeBits == 64

\* usize::MAX
UsizeMax == BigSub(BigShl(<<1>>, UsizeBits), <<1>>)

\* the result of an operation on usize that does not fit: a build with
\* overflow checks panics (no value), one without keeps the low bits
Wrapped(n) == BigSub(n, BigShl(BigShr(n, UsizeBits), UsizeBits))

Overflows(n) == BigCmp(n, UsizeMax) > 0

\* <usize as FromStr>::from_str: an optional '+', then one or more digits
\* that denote a number no greater than usize::MAX
usize_of(v) == IF Overflows(v) THEN None ELSE Some(v)

usize_from_str(s) ==
    IF s = << >> THEN None
    ELSE LET d == IF s[1] = "+" THEN Tail(s) ELSE s
         IN  IF d = << >> \/ ~AllDigits(d) THEN None
             ELSE usize_of(DecVal(d))

\* 2^31, the magnitude of i32::MIN
I32Limit == BigShl(<<1>>, 31)

\* <i32 as FromStr>::from_str: an optional sign, then one or more digits that
\* denote a number in i32::MIN..i32::MAX
\* the i32 of magnitude v, cmp comparing v with 2^31
i32_of(neg, v, cmp) ==
    IF cmp > 0 \/ (cmp = 0 /\ ~neg) THEN None
    ELSE IF cmp = 0 THEN Some(-2147483647 - 1)
    ELSE Some(IF neg THEN -BigToNat(v) ELSE BigToNat(v))

i32_magnitude(neg, v) == i32_of(neg, v, BigCmp(v, I32Limit))

i32_from_str(s) ==
    IF s = << >> THEN None
    ELSE LET d == IF s[1] \in {"+", "-"} THEN Tail(s) ELSE s
         IN  IF d = << >> \/ ~AllDigits(d) THEN None
             ELSE i32_magnitude(s[1] = "-", DecVal(d))

\* ASCII lower case of the letters of "infinity" and "nan"
Lower(ch) ==
    CASE ch = "I" -> "i" [] ch = "N" -> "n" [] ch = "F" -> "f"
      [] ch = "T" -> "t" [] ch = "Y" -> "y" [] ch = "A" -> "a"
      [] OTHER -> ch

\* dec2flt's parse_inf_nan: "nan", "inf", "infinity" in any case
parse_inf_nan(b, sign) ==
    LET w == [k \in 1..Len(b) |-> Lower(b[k])]
    IN  IF w = <<"n", "a", "n">> THEN Some(NaN)
        ELSE IF w = <<"i", "n", "f">>
                \/ w = <<"i", "n", "f", "i", "n", "i", "t", "y">>
        THEN Some(Inf(sign))
        ELSE None

\* dec2flt's parse_scientific: a digit is taken into the exponent while the
\* exponent is below 0x10000
ExpGuard == 65536

\* dec2flt's parse_scientific: the exponent of the digits d, taken from the
\* left; the digits that come once the exponent has reached ExpGuard are
\* read and dropped
RECURSIVE ExpVal(_)
ExpVal(d) ==
    IF d = << >> THEN 0
    ELSE LET v == ExpVal(SubSeq(d, 1, Len(d) - 1))
         IN  IF v < ExpGuard THEN 10 * v + DigitVal(d[Len(d)]) ELSE v

\* 10^DecimalTop exceeds f64::MAX
DecimalTop == 309

\* 10^DecimalBottom is below half the least positive f64
DecimalBottom == -324

\* the f64 nearest to (-1)^sign * m * 10^p, m # 0 a number of nd digits
Scaled(sign, m, nd, p) ==
    IF nd + p - 1 >= DecimalTop THEN Inf(sign)
    ELSE IF nd + p <= DecimalBottom THEN Zero(sign)
    ELSE IF p >= 0 THEN Round(sign, BigMul(m, BigPow10(p)), 0)
    ELSE RoundRatio(sign, m, BigPow10(-p), 0)

\* the digits of a numeral after its leading zeros
Significant(digits) ==
    LET nz == {k \in 1..Len(digits) : digits[k] # "0"}
    IN  IF nz = {} THEN << >>
        ELSE SubSeq(digits, CHOOSE k \in nz : \A j \in nz : k <= j,
                    Len(digits))

\* the f64 nearest to (-1)^sign * digits * 10^p
Decimal(sign, digits, p) ==
    IF Significant(digits) = << >> THEN Zero(sign)
    ELSE Scaled(sign, DecVal(Significant(digits)),
                Len(Significant(digits)), p)

\* the digits d of an exponent, all of them digits and at least one
exponent_digits(d, neg) ==
    IF d = << >> \/ ~AllDigits(d) THEN None
    ELSE Some(IF neg THEN -ExpVal(d) ELSE ExpVal(d))

\* what follows 'e' or 'E', from position k on: an optional sign and digits
signed_exponent(b, k) ==
    IF k <= Len(b) /\ b[k] \in {"+", "-"}
    THEN exponent_digits(SubSeq(b, k + 1, Len(b)), b[k] = "-")
    ELSE exponent_digits(SubSeq(b, k, Len(b)), FALSE)

\* what follows the mantissa, from position k on: nothing, or an exponent
exponent(b, k) ==
    IF k > Len(b) THEN Some(0)
    ELSE IF b[k] \notin {"e", "E"} THEN None
    ELSE signed_exponent(b, k + 1)

\* the number of a mantissa with n2 digits after the point and exponent expo
number_of(sign, digits, n2, expo) ==
    IF digits = << >> \/ expo = None THEN None
    ELSE Some(Decimal(sign, digits, Unwrap(expo) - n2))

\* the mantissa has n1 digits, then n2 more from position k on (after a
\* point, if any)
after_mantissa(b, sign, n1, n2, k) ==
    number_of(sign, SubSeq(b, 1, n1) \o SubSeq(b, k, k + n2 - 1), n2,
              exponent(b, k + n2))

\* a point stands after the first n1 characters
HasPoint(b, n1) == n1 + 1 <= Len(b) /\ b[n1 + 1] = "."

\* the mantissa starts with n1 digits
after_integer(b, sign, n1) ==
    after_mantissa(b, sign, n1,
                   IF HasPoint(b, n1) THEN DigitRun(b, n1 + 2) ELSE 0,
                   IF HasPoint(b, n1) THEN n1 + 2 ELSE n1 + 1)

\* dec2flt's parse_number: digits with at most one '.', at least one digit,
\* then an optional exponent: 'e' or 'E', an optional sign, one or more digits
parse_number(b, sign) == after_integer(b, sign, DigitRun(b, 1))

\* the number r when there is one, and inf, infinity and nan otherwise
number_or_special(r, b, sign) ==
    IF IsSome(r) THEN r ELSE parse_inf_nan(b, sign)

\* <f64 as FromStr>::from_str: an optional sign, then a decimal numeral
\* (correctly rounded) or "inf", "infinity" or "nan"
f64_from_str(s) ==
    IF s = << >> THEN None
    ELSE LET sign == IF s[1] = "-" THEN 1 ELSE 0
             b    == IF s[1] \in {"+", "-"} THEN Tail(s) ELSE s
         IN  IF b = << >> THEN None
             ELSE number_or_special(parse_number(b, sign), b, sign)

\* T::from_str
from_str(T, s) ==
    CASE T = "usize" -> usize_from_str(s)
      [] T = "i32"   -> i32_from_str(s)
      [] T = "f64"   -> f64_from_str(s)

---------------------------------------------------------------------------
(* parse_pair, parse_complex *)

\* find, mutated: the last occurrence instead of the first (str::rfind)
rfind(s, separator) ==
    LET occ == {k \in 1..Len(s) : s[k] = separator}
    IN  IF occ = {} THEN None
        ELSE Some((CHOOSE k \in occ : \A j \in occ : j <= k) - 1)

\* str::find(char), for an ASCII char: the byte index (from 0) of its first
\* occurrence
find(s, separator) ==
    LET occ == {k \in 1..Len(s) : s[k] = separator}
    IN  IF occ = {} THEN None
        ELSE Some((CHOOSE k \in occ : \A j \in occ : k <= j) - 1)

\* parse_pair, lines 49-52: the match on the two results
pair_of(l, r) ==
    IF IsSome(l) /\ IsSome(r) THEN Some(<<Unwrap(l), Unwrap(r)>>) ELSE None

\* parse_pair, lines 47-49: the two parts of s around the byte at index
split_at(T, s, index) ==
    pair_of(from_str(T, SubSeq(s, 1, index)),
            from_str(T, SubSeq(s, index + 2, Len(s))))

\* parse_pair, line 44: the match on s.find(separator)
split_found(T, s, found) ==
    IF ~IsSome(found) THEN None ELSE split_at(T, s, Unwrap(found))

parse_pair(T, s, separator) == split_found(T, s, find(s, separator))

\* parse_complex, lines 60-64: the match on the pair
complex_of(p) ==
    IF ~IsSome(p) THEN None ELSE Some(Cx(Unwrap(p)[1], Unwrap(p)[2]))

parse_complex(s) == complex_of(parse_pair("f64", s, ","))

---------------------------------------------------------------------------
(* lerp, pixel_to_point, escape_time *)

\* the literal 1.0
One == FromInt(1)

\* lerp, mutated: the weights of a and b exchanged
lerp_reversed(a, b, t) == FAdd(FMul(a, t), FMul(b, FSub(One, t)))

lerp(a, b, t) == FAdd(FMul(a, FSub(One, t)), FMul(b, t))

pixel_to_point(bnds, pixel, ul, lr) ==
    Cx(lerp(ul.re, lr.re, FDiv(FromUsize(pixel[1]), FromUsize(bnds[1]))),
       lerp(ul.im, lr.im, FDiv(FromUsize(pixel[2]), FromUsize(bnds[2]))))

\* the radius-2 test's constant, 4.0
EscapeBound == 4

\* Escaped, mutated: >= for >
EscapedOnCircle(zz) ==
    \/ FGt(norm_sqr(zz), FromInt(EscapeBound))
    \/ FEq(norm_sqr(zz), FromInt(EscapeBound))

\* escape_time, line 105: z.norm_sqr() > 4.0
Escaped(zz) == FGt(norm_sqr(zz), FromInt(EscapeBound))

\* escape_time, line 109: z * z + c
Update(zz, cc) == CAdd(CMul(zz, zz), cc)

\* Complex{ re: 0.0, im: 0.0 }
Origin == Cx(Zero(0), Zero(0))

---------------------------------------------------------------------------
(* escape_time, a call in progress *)

\* EscapeEnter, mutated: the orbit starts at c instead of 0
EscapeEnterAtC ==
    /\ pc = "escape_time"
    /\ z' = c
    /\ i' = 0
    /\ updates' = 0
    /\ pc' = "escape_loop"
    /\ UNCHANGED <<inputVars, pixels, x, y, c, limit, et, ret_to, writes,
                   file, status, stderr, callVars>>

\* escape_time, line 101: let mut z = 0, and the loop starts at i = 0
EscapeEnter ==
    /\ pc = "escape_time"
    /\ z' = Origin
    /\ i' = 0
    /\ updates' = 0
    /\ pc' = "escape_loop"
    /\ UNCHANGED <<inputVars, pixels, x, y, c, limit, et, ret_to, writes,
                   file, status, stderr, callVars>>

\* EscapeIter, mutated: the update is made before the check
EscapeIterUpdateFirst ==
    /\ pc = "escape_loop"
    /\ i < limit
    /\ z' = Update(z, c)
    /\ updates' = updates + 1
    /\ IF Escaped(z')
       THEN /\ et' = Some(i)
            /\ pc' = ret_to
            /\ UNCHANGED i
       ELSE /\ i' = i + 1
            /\ UNCHANGED <<et, pc>>
    /\ UNCHANGED <<inputVars, pixels, x, y, c, limit, ret_to, writes, file,
                   status, stderr, callVars>>

\* escape_time, lines 103-110: one iteration of `for i in 0..limit`
EscapeIter ==
    /\ pc = "escape_loop"
    /\ i < limit
    /\ IF Escaped(z)
       THEN /\ et' = Some(i)
            /\ pc' = ret_to
            /\ UNCHANGED <<z, i, updates>>
       ELSE /\ z' = Update(z, c)
            /\ i' = i + 1
            /\ updates' = updates + 1
            /\ UNCHANGED <<et, pc>>
    /\ UNCHANGED <<inputVars, pixels, x, y, c, limit, ret_to, writes, file,
                   status, stderr, callVars>>

\* escape_time, lines 103 and 112: the range is exhausted, None
EscapeNone ==
    /\ pc = "escape_loop"
    /\ i >= limit
    /\ et' = None
    /\ pc' = ret_to
    /\ UNCHANGED <<inputVars, pixels, x, y, c, limit, z, i, ret_to, updates,
                   writes, file, status, stderr, callVars>>

---------------------------------------------------------------------------
---------------------------------------------------------------------------
(* The program: main, render, write_image *)

\* main's argument count test: the program name and four arguments
ArgCount == 5

\* render's iteration limit
Limit == 255

\* `count as u8`
AsU8(n) == n % 256

\* intensity, mutated: the count stored as it is, not taken from 255
intensity_not_inverted(result) ==
    IF ~IsSome(result) THEN 0 ELSE AsU8(Unwrap(result))

\* render, lines 129-132: the match on escape_time's result
intensity(result) ==
    IF ~IsSome(result) THEN 0 ELSE (255 - AsU8(Unwrap(result))) % 256

\* an operation on usize whose exact result is n: Some(n) when n fits; when it
\* does not, None (a panic) in a build with overflow checks and the low bits
\* of n in a build without
Checked(n) ==
    IF ~Overflows(n) THEN Some(n)
    ELSE IF build = "debug" THEN None
    ELSE Some(Wrapped(n))

\* a * b on usize
usize_mul(a, b) == Checked(BigMul(a, b))

\* a + b on usize
usize_add(a, b) == Checked(BigAdd(a, b))

\* offset, mutated: rows taken to be bounds.1 long
offset_by_height(px, py, bnds) ==
    LET rows == usize_mul(py, bnds[2])
    IN  IF ~IsSome(rows) THEN None ELSE usize_add(Unwrap(rows), px)

\* render, line 128: y * bounds.0 + x, the buffer index of pixel (px, py); None
\* when the multiplication or the addition panics
offset(px, py, bnds) ==
    LET rows == usize_mul(py, bnds[1])
    IN  IF ~IsSome(rows) THEN None ELSE usize_add(Unwrap(rows), px)

Width  == bounds[1]

Height == bounds[2]

\* a < b on usize, for a counter a
Below(a, b) == BigCmp(Big(a), b) < 0

\* a panic, or expect() on None / Err: the message goes to standard error
Panic(msg) ==
    /\ pc' = "exited"
    /\ status' = "panic"
    /\ stderr' = msg

\* the bytes of the model that are not ASCII: the lead byte and the
\* continuation byte of a two-byte character, and a byte no UTF-8 text holds
LeadBytes == {"C3"}

ContinuationBytes == {"A9"}

NeverBytes == {"FF"}

\* s is UTF-8 from byte k on
RECURSIVE ValidFrom(_, _)
ValidFrom(s, k) ==
    IF k > Len(s) THEN TRUE
    ELSE IF s[k] \in LeadBytes
    THEN k < Len(s) /\ s[k + 1] \in ContinuationBytes /\ ValidFrom(s, k + 2)
    ELSE IF s[k] \in ContinuationBytes \cup NeverBytes THEN FALSE
    ELSE ValidFrom(s, k + 1)

\* OsString::into_string succeeds
ValidUnicode(s) == ValidFrom(s, 1)

\* main, line 10: env::args() panics on an argument that is not Unicode
NotUnicode == "called Result::unwrap() on an Err value"

\* main, line 10: the arguments are collected as Strings
CollectArgs ==
    /\ pc = "main"
    /\ IF \A k \in 1..Len(args) : ValidUnicode(args[k])
       THEN /\ pc' = "check_args"
            /\ UNCHANGED <<status, stderr>>
       ELSE Panic(NotUnicode)
    /\ UNCHANGED <<inputVars, pixels, x, y, escapeVars, writes, file, callVars>>

\* main, lines 13-15: eprintln! panics when standard error takes no write
PrintFailed == "failed printing to stderr"

\* main, lines 12-16: the argument count.  On another count the usage text
\* and the example go to standard error and the process exits with status 1,
\* unless standard error takes no write: then eprintln! panics.
CheckArgs ==
    /\ pc = "check_args"
    /\ IF Len(args) # ArgCount
       THEN \E printed \in BOOLEAN :
                IF printed
                THEN /\ pc' = "exited"
                     /\ status' = "exit1"
                     /\ stderr' = "usage"
                ELSE Panic(PrintFailed)
       ELSE /\ pc' = "parse_bounds"
            /\ UNCHANGED <<status, stderr>>
    /\ UNCHANGED <<inputVars, pixels, x, y, escapeVars, writes, file, callVars>>

\* main, line 18
ParseBounds ==
    /\ pc = "parse_bounds"
    /\ \E r \in {parse_pair("usize", args[3], "x")} :
           IF IsSome(r)
           THEN /\ bounds' = Unwrap(r)
                /\ pc' = "parse_upper_left"
                /\ UNCHANGED <<status, stderr>>
           ELSE /\ Panic("error parsing image dimensions")
                /\ UNCHANGED bounds
    /\ UNCHANGED <<args, build, upper_left, lower_right, pixels, x, y,
                   escapeVars, writes, file, callVars>>

\* main, line 19
ParseUpperLeft ==
    /\ pc = "parse_upper_left"
    /\ \E r \in {parse_complex(args[4])} :
           IF IsSome(r)
           THEN /\ upper_left' = Unwrap(r)
                /\ pc' = "parse_lower_right"
                /\ UNCHANGED <<status, stderr>>
           ELSE /\ Panic("error parsing upper-left corner point")
                /\ UNCHANGED upper_left
    /\ UNCHANGED <<args, build, bounds, lower_right, pixels, x, y, escapeVars,
                   writes, file, callVars>>

\* main, line 20
ParseLowerRight ==
    /\ pc = "parse_lower_right"
    /\ \E r \in {parse_complex(args[5])} :
           IF IsSome(r)
           THEN /\ lower_right' = Unwrap(r)
                /\ pc' = "alloc"
                /\ UNCHANGED <<status, stderr>>
           ELSE /\ Panic("error parsing lower-right corner point")
                /\ UNCHANGED lower_right
    /\ UNCHANGED <<args, build, bounds, upper_left, pixels, x, y, escapeVars,
                   writes, file, callVars>>

\* the panic of an overflowing multiplication, with overflow checks
MulOverflow == "attempt to multiply with overflow"

\* the panic of an overflowing addition, with overflow checks
AddOverflow == "attempt to add with overflow"

\* isize::MAX, the largest size of an allocation
IsizeMax == BigSub(BigShl(<<1>>, UsizeBits - 1), <<1>>)

\* the panic of vec! asked for more than isize::MAX bytes
CapacityOverflow == "capacity overflow"

\* the address space of a process has fewer than 2^AddressBits bytes on every
\* 64-bit target (the widest, 57-bit virtual addresses, gives a process half)
AddressBits == 56

\* main, line 26: what handle_alloc_error reports when the allocator returns
\* no memory, before it aborts the process
AllocFailed == "memory allocation failed"

\* main, lines 26-28: vec![0; bounds.0 * bounds.1], then the call of render.
\* The product panics or wraps as the build has it; a length above isize::MAX
\* panics; a length of 0 allocates nothing; any other length is asked of the
\* allocator, which may refuse it (the memory of the machine, a limit set on
\* the process) and must refuse one that no address space holds.  A refusal
\* aborts the process (SIGABRT): no panic, no unwinding.
Alloc ==
    /\ pc = "alloc"
    /\ \E len \in {usize_mul(Width, Height)} :
           IF ~IsSome(len)
           THEN /\ Panic(MulOverflow)
                /\ UNCHANGED pixels
           ELSE IF BigCmp(Unwrap(len), IsizeMax) > 0
           THEN /\ Panic(CapacityOverflow)
                /\ UNCHANGED pixels
           ELSE \E granted \in
                       IF Unwrap(len) = Big(0) THEN {TRUE}
                       ELSE IF BigCmp(Unwrap(len), BigShl(<<1>>, AddressBits)) > 0
                       THEN {FALSE}
                       ELSE BOOLEAN :
                    IF granted
                    THEN /\ pixels' = [k \in 1..BigToNat(Unwrap(len)) |-> 0]
                         /\ pc' = "render"
                         /\ UNCHANGED <<status, stderr>>
                    ELSE /\ pc' = "exited"
                         /\ status' = "abort"
                         /\ stderr' = AllocFailed
                         /\ UNCHANGED pixels
    /\ UNCHANGED <<inputVars, x, y, escapeVars, writes, file, callVars>>

\* render, line 120: the message of the failed assertion
AssertFailed == "assertion failed: pixels.len() == bounds.0 * bounds.1"

\* render, line 120: the assertion on the buffer's length
RenderEnter ==
    /\ pc = "render"
    /\ LET len == usize_mul(Width, Height)
       IN  IF ~IsSome(len)
           THEN /\ Panic(MulOverflow)
                /\ UNCHANGED y
           ELSE IF Big(Len(pixels)) = Unwrap(len)
           THEN /\ pc' = "render_rows"
                /\ y' = 0
                /\ UNCHANGED <<status, stderr>>
           ELSE /\ Panic(AssertFailed)
                /\ UNCHANGED y
    /\ UNCHANGED <<inputVars, pixels, x, escapeVars, writes, file, callVars>>

\* render, line 122: the head of `for y in 0..bounds.1`, a row to do
RenderRow ==
    /\ pc = "render_rows"
    /\ Below(y, Height)
    /\ x' = 0
    /\ pc' = "render_cols"
    /\ UNCHANGED <<inputVars, pixels, y, escapeVars, writes, file, status,
                   stderr, callVars>>

\* render, lines 124-129: a pixel to do: its point, and escape_time(point, 255)
RenderPoint ==
    /\ pc = "render_cols"
    /\ Below(x, Width)
    /\ c' = pixel_to_point(bounds, <<Big(x), Big(y)>>, upper_left, lower_right)
    /\ limit' = Limit
    /\ ret_to' = "render_store"
    /\ pc' = "escape_time"
    /\ UNCHANGED <<inputVars, pixels, x, y, z, i, et, updates, writes, file,
                   status, stderr, callVars>>

\* render, line 128: the panic of an index that is not below the length
IndexOutOfBounds == "index out of bounds"

\* render, lines 128-132: the store of the pixel's intensity
RenderStore ==
    /\ pc = "render_store"
    /\ LET index == offset(Big(x), Big(y), bounds)
       IN  IF ~IsSome(index)
           THEN /\ Panic(IF IsSome(usize_mul(Big(y), Width))
                         THEN AddOverflow ELSE MulOverflow)
                /\ UNCHANGED <<pixels, writes, x>>
           ELSE IF BigCmp(Unwrap(index), Big(Len(pixels))) < 0
           THEN /\ pixels' = [pixels EXCEPT
                                 ![BigToNat(Unwrap(index)) + 1] = intensity(et)]
                /\ writes' = Append(writes,
                       [x |-> x, y |-> y, index |-> BigToNat(Unwrap(index)),
                        point |-> c, limit |-> limit, result |-> et])
                /\ x' = x + 1
                /\ pc' = "render_cols"
                /\ UNCHANGED <<status, stderr>>
           ELSE /\ Panic(IndexOutOfBounds)
                /\ UNCHANGED <<pixels, writes, x>>
    /\ UNCHANGED <<inputVars, y, escapeVars, file, callVars>>

\* render, line 124: the row is done
RenderRowEnd ==
    /\ pc = "render_cols"
    /\ ~Below(x, Width)
    /\ y' = y + 1
    /\ pc' = "render_rows"
    /\ UNCHANGED <<inputVars, pixels, x, escapeVars, writes, file, status,
                   stderr, callVars>>

\* render, lines 122 and 135: all rows done, render returns to main, line 30
RenderReturn ==
    /\ pc = "render_rows"
    /\ ~Below(y, Height)
    /\ pc' = "write_image"
    /\ UNCHANGED <<inputVars, pixels, x, y, escapeVars, writes, file, status,
                   stderr, callVars>>

\* main, line 30: expect() reports its message and the error write_image returned
CreateFailed == "error writing PNG file: File::create failed"

EncodeFailed == "error writing PNG file: encode failed"

\* write_image, line 139: File::create(filename)?  On success FILE exists and
\* is empty; on failure nothing is created and main's expect panics.
CreateFile ==
    /\ pc = "write_image"
    /\ \E created \in BOOLEAN :
          IF created
          THEN /\ file' = "empty"
               /\ pc' = "encode"
               /\ UNCHANGED <<status, stderr>>
          ELSE /\ Panic(CreateFailed)
               /\ UNCHANGED file
    /\ UNCHANGED <<inputVars, pixels, x, y, escapeVars, writes, callVars>>

\* EncodeImage, mutated: the encoder's result is dropped, not propagated
EncodeImageUnchecked ==
    /\ pc = "encode"
    /\ file' \in {"complete", "empty", "partial"}
    /\ pc' = "exited"
    /\ status' = "exit0"
    /\ UNCHANGED <<inputVars, pixels, x, y, escapeVars, writes, stderr,
                   callVars>>

\* write_image, lines 141-145: encoder.encode(...)?  The encoder writes to
\* the open file; an I/O error may come before or after some bytes are written.
EncodeImage ==
    /\ pc = "encode"
    /\ \E outcome \in {"ok", "err_before_write", "err_after_write"} :
          CASE outcome = "ok" ->
                 /\ file' = "complete"
                 /\ pc' = "exited"
                 /\ status' = "exit0"
                 /\ UNCHANGED stderr
            [] outcome = "err_before_write" ->
                 /\ Panic(EncodeFailed)
                 /\ UNCHANGED file
            [] outcome = "err_after_write" ->
                 /\ Panic(EncodeFailed)
                 /\ file' = "partial"
    /\ UNCHANGED <<inputVars, pixels, x, y, escapeVars, writes, callVars>>

---------------------------------------------------------------------------
(* The runs of the program *)

\* the largest number of command-line words tried (the program name included)
MaxArgs == 6

ProgName == <<"m">>

FileArg == <<"f">>

\* PIXELS arguments that parse, of small images: one is empty, one is three
\* pixels wide
SmallPixelArgs ==
    { <<"1", "x", "1">>,
      <<"2", "x", "1">>,
      <<"1", "x", "2">>,
      <<"2", "x", "2">>,
      <<"0", "x", "1">>,
      <<"3", "x", "1">> }

\* PIXELS arguments that parse and whose product is 2^64 (0 in 64 bits),
\* 2^64 + 2 (2 in 64 bits), 2^63 (above isize::MAX) and 2^60 (a usize below
\* isize::MAX that no address space holds)
HugePixelArgs ==
    { <<"4", "2", "9", "4", "9", "6", "7", "2", "9", "6", "x", "4", "2", "9",
        "4", "9", "6", "7", "2", "9", "6">>,
      <<"2", "x", "9", "2", "2", "3", "3", "7", "2", "0", "3", "6", "8", "5",
          "4", "7", "7", "5", "8", "0", "9">>,
      <<"9", "2", "2", "3", "3", "7", "2", "0", "3", "6", "8", "5", "4", "7",
          "7", "5", "8", "0", "8", "x", "1">>,
      <<"1", "0", "9", "9", "5", "1", "1", "6", "2", "7", "7", "7", "6", "x",
          "1", "0", "4", "8", "5", "7", "6">> }

\* PIXELS arguments that do not parse; the last exceeds usize::MAX
BadPixelArgs ==
    { << >>,
      <<"2">>,
      <<"2", "x">>,
      <<"x", "2">>,
      <<"2", ",", "2">>,
      <<"2", "x", "2", "x">>,
      <<"-", "1", "x", "1">>,
      <<"9", "9", "9", "9", "9", "9", "9", "9", "9", "9", "9", "9", "9", "9",
          "9", "9", "9", "9", "9", "9", "x", "1">> }

\* UPPERLEFT and LOWERRIGHT arguments that parse, with small integer
\* coordinates
PlainPointArgs ==
    { <<"-", "2", ",", "2">>,
      <<"2", "e", "0", ",", "-", "2">>,
      <<"0", ",", "0">>,
      <<"+", "1", ",", "1">> }

\* UPPERLEFT and LOWERRIGHT arguments that do not parse; one holds a
\* two-byte character
BadPointArgs ==
    { << >>,
      <<"1">>,
      <<"1", ",">>,
      <<",", "1">>,
      <<"1", "x", "1">>,
      <<"1", ",", "1", "x">>,
      <<"1", "e", ",", "1">>,
      <<"C3", "A9", ",", "1">> }

\* the command lines with the right number of words, over those arguments
PlainArgs ==
    { <<ProgName, FileArg, p, u, l>> :
          p \in SmallPixelArgs \cup BadPixelArgs,
          u \in PlainPointArgs \cup BadPointArgs,
          l \in PlainPointArgs \cup BadPointArgs }

\* command lines tried besides: the usage text's example on 2 x 2 and on
\* 3 x 1 pixels, corners that are not finite, a corner far beyond the circle
\* of radius 2, and a file name that is not Unicode
OtherArgs ==
    { <<ProgName, FileArg, <<"2", "x", "2">>, <<"-", "1", ".", "2", "0", ",",
        "0", ".", "3", "5">>, <<"-", "1", ",", "0", ".", "2">>>>,
      <<ProgName, FileArg, <<"3", "x", "1">>, <<"-", "1", ".", "2", "0", ",",
          "0", ".", "3", "5">>, <<"-", "1", ",", "0", ".", "2">>>>,
      <<ProgName, FileArg, <<"2", "x", "1">>, <<"i", "n", "f", ",", "N", "a",
          "N">>, <<"0", ",", "-", "I", "n", "f", "i", "n", "i", "t", "y">>>>,
      <<ProgName, FileArg, <<"2", "x", "1">>, <<"1", "e", "2", "0", "0", ",",
          "0">>, <<"0", ",", "0">>>>,
      <<ProgName, <<"FF">>, <<"1", "x", "1">>, <<"0", ",", "0">>, <<"0", ",",
          "0">>>> }

\* command lines whose image does not fit the address space
HugeArgs ==
    { <<ProgName, FileArg, p, <<"-", "2", ",", "2">>, <<"2", "e", "0", ",",
        "-", "2">>>> : p \in HugePixelArgs }

\* the command lines with the right number of words
FullArgs == PlainArgs \cup OtherArgs \cup HugeArgs

\* the command lines tried: those, and each cut or extended to another length
\* (the program name is always there: the system supplies it)
ArgLists ==
    { IF n <= ArgCount THEN SubSeq(a, 1, n)
      ELSE a \o [k \in 1..(n - ArgCount) |-> FileArg] :
          a \in FullArgs, n \in 1..MaxArgs }

\* with and without overflow checks (cargo's dev and release profiles)
Builds == {"debug", "release"}

\* main's locals before they are bound, and no buffer
NothingParsed ==
    /\ bounds = <<Big(0), Big(0)>>
    /\ upper_left = Origin
    /\ lower_right = Origin
    /\ pixels = << >>

\* no call of escape_time made yet
IdleEscape ==
    /\ c = Origin
    /\ limit = 0
    /\ z = Origin
    /\ i = 0
    /\ et = None
    /\ ret_to = ""
    /\ updates = 0

\* no pure function under test
IdleCall ==
    /\ call = Null
    /\ ret = Null

\* the environment of a run: nothing written, nothing reported
FreshProcess ==
    /\ x = 0
    /\ y = 0
    /\ writes = << >>
    /\ file = "absent"
    /\ status = "running"
    /\ stderr = ""

Init ==
    /\ pc = "main"
    /\ args \in ArgLists
    /\ build \in Builds
    /\ NothingParsed
    /\ FreshProcess
    /\ IdleEscape
    /\ IdleCall

Next ==
    \/ CollectArgs
    \/ CheckArgs
    \/ ParseBounds
    \/ ParseUpperLeft
    \/ ParseLowerRight
    \/ Alloc
    \/ RenderEnter
    \/ RenderRow
    \/ RenderPoint
    \/ EscapeEnter
    \/ EscapeIter
    \/ EscapeNone
    \/ RenderStore
    \/ RenderRowEnd
    \/ RenderReturn
    \/ CreateFile
    \/ EncodeImage

Spec == Init /\ [][Next]_vars

---------------------------------------------------------------------------
(* render called on a buffer of any length *)

\* the longest buffer handed to render
MaxBuf == 5

\* the byte a caller's buffer holds before render
Fill == 7

\* the widths and heights of the images render is called on
RenderSizes == {1, 2}

\* bounds whose product does not fit a usize: 2 x (2^63 + 1) wraps to 2 and
\* 2^32 x 2^32 to 0
WrappingBounds ==
    { <<Big(2), BigAdd(BigShl(Big(1), UsizeBits - 1), Big(1))>>,
      <<BigShl(Big(1), UsizeBits \div 2), BigShl(Big(1), UsizeBits \div 2)>> }

RenderBounds ==
    {<<Big(w), Big(h)>> : w, h \in RenderSizes} \cup WrappingBounds

RenderCorners ==
    { Cx(FromInt(-2), FromInt(2)), Cx(FromInt(2), FromInt(-2)),
      Cx(FromInt(0), FromInt(0)) }

InitRender ==
    /\ pc = "render"
    /\ args = << >>
    /\ build \in Builds
    /\ bounds \in RenderBounds
    /\ upper_left \in RenderCorners
    /\ lower_right \in RenderCorners
    /\ pixels \in {[k \in 1..n |-> Fill] : n \in 0..MaxBuf}
    /\ FreshProcess
    /\ IdleEscape
    /\ IdleCall

NextRender ==
    \/ RenderEnter
    \/ RenderRow
    \/ RenderPoint
    \/ EscapeEnter
    \/ EscapeIter
    \/ EscapeNone
    \/ RenderStore
    \/ RenderRowEnd
    \/ RenderReturn

SpecRender == InitRender /\ [][NextRender]_vars

---------------------------------------------------------------------------
(* escape_time called on its own *)

\* the largest iteration limit tried
MaxLimit == 4

\* the points tried have coordinates k/2 with |k| <= MaxCoord
MaxCoord == 6

\* 0.1, as the program reads it
Tenth == Unwrap(f64_from_str(<<"0", ".", "1">>))

\* 2^-30: (2, 2^-30) lies outside the circle of radius 2 and its squared
\* norm, 4 + 2^-60, rounds to 4.0
Tiny == FDiv(One, FromInt(1073741824))

\* 10^200, whose square is infinite in f64
Huge == Unwrap(f64_from_str(<<"1", "e", "2", "0", "0">>))

\* points with coordinates that are not half-integers
OddPoints ==
    { Cx(FromInt(2), Tiny), Cx(Tenth, Tenth), Cx(Huge, Zero(0)),
      Cx(Inf(0), Zero(0)), Cx(Inf(1), Inf(0)), Cx(NaN, Zero(0)),
      Cx(FromInt(3), NaN), Cx(Zero(1), Zero(1)) }

EscapePoints ==
    { Cx(FDiv(FromInt(a), FromInt(2)), FDiv(FromInt(b), FromInt(2))) :
          a, b \in (-MaxCoord)..MaxCoord }
        \cup OddPoints

\* no program around the function under test, which does no arithmetic on
\* usize: the build makes no difference to it
NoProcess ==
    /\ args = << >>
    /\ build = "debug"
    /\ NothingParsed
    /\ FreshProcess

InitEscape ==
    /\ pc = "escape_time"
    /\ c \in EscapePoints
    /\ limit \in 0..MaxLimit
    /\ ret_to = "returned"
    /\ z = Origin
    /\ i = 0
    /\ et = None
    /\ updates = 0
    /\ NoProcess
    /\ IdleCall

NextEscape ==
    \/ EscapeEnter
    \/ EscapeIter
    \/ EscapeNone

SpecEscape == InitEscape /\ [][NextEscape]_vars

---------------------------------------------------------------------------
(* pixel_to_point called on its own *)

\* the corners tried have integer coordinates of magnitude at most MaxCorner,
\* or a coordinate that no binary fraction equals, or one that is not finite
MaxCorner == 1

\* the widest and highest image tried
MaxSize == 3

CornerCoords ==
    {FromInt(a) : a \in (-MaxCorner)..MaxCorner} \cup {Tenth, Inf(0), NaN}

Corners == {Cx(a, b) : a, b \in CornerCoords}

\* the case of test_pixel_to_point
TestPointCall ==
    [bounds |-> <<Big(100), Big(200)>>, pixel |-> <<Big(25), Big(175)>>,
     upper_left |-> Cx(FromInt(-1), FromInt(1)),
     lower_right |-> Cx(FromInt(1), FromInt(-1))]

\* the pixels of the images tried, and pixel 0 of an axis of no pixels; the
\* lower right corners lie on the diagonal re = im, the two coordinates being
\* computed apart
PointCalls ==
    { [bounds |-> <<Big(w), Big(h)>>, pixel |-> <<Big(col), Big(row)>>,
       upper_left |-> ul, lower_right |-> lr] :
          w \in 0..MaxSize, h \in 0..MaxSize,
          col \in 0..(MaxSize - 1), row \in 0..(MaxSize - 1),
          ul \in Corners, lr \in {k \in Corners : k.re = k.im} }

InitPoint ==
    /\ pc = "pixel_to_point"
    /\ call \in {k \in PointCalls :
                    \A n \in 1..2 :
                       \/ BigCmp(k.pixel[n], k.bounds[n]) < 0
                       \/ k.pixel[n] = Big(0) /\ k.bounds[n] = Big(0)}
                \cup {TestPointCall}
    /\ ret = Null
    /\ NoProcess
    /\ IdleEscape

CallPixelToPoint ==
    /\ pc = "pixel_to_point"
    /\ ret' = pixel_to_point(call.bounds, call.pixel,
                             call.upper_left, call.lower_right)
    /\ pc' = "returned"
    /\ UNCHANGED <<inputVars, pixels, x, y, escapeVars, writes, file, status,
                   stderr, call>>

SpecPoint == InitPoint /\ [][CallPixelToPoint]_vars

---------------------------------------------------------------------------
(* parse_pair called on its own *)

\* the longest string tried over the alphabet
MaxLen == 5

Alphabet == {"1", "2", ".", "-", ",", "x"}

Separators == {",", "x", "-"}

Types == {"usize", "i32", "f64"}

\* strings tried besides: those of the tests, signs, exponents (one beyond
\* ExpGuard), infinities and NaN, the ends of the ranges of i32 and usize, a
\* two-byte character, a '-' in an exponent
OtherStrings ==
    { <<"1", "0", ",", "2", "0">>,
      <<"1", "0", ",", "2", "0", "x", "y">>,
      <<"0", ".", "5", "x", "1", ".", "5">>,
      <<"1", ".", "2", "5", ",", "-", "0", ".", "0", "6", "2", "5">>,
      <<"0", ".", "0", "6", "2", "5", ",">>,
      <<",", "-", "0", ".", "0", "6", "2", "5">>,
      <<"+", "1", ",", "+", "2">>,
      <<"1", "e", "1", ",", "1", "E", "-", "2">>,
      <<"1", "e", ",", "1">>,
      <<"1", ".", "e", "1", ",", ".", "5", "e", "+", "1">>,
      <<"i", "n", "f", ",", "-", "I", "n", "f", "i", "n", "i", "t", "y">>,
      <<"N", "a", "N", ",", "n", "a", "n">>,
      <<"n", "a", "n", "e", ",", "1">>,
      <<"-", "1", ".", "2", "0", ",", "0", ".", "3", "5">>,
      <<"2", "1", "4", "7", "4", "8", "3", "6", "4", "7", ",", "-", "2", "1",
          "4", "7", "4", "8", "3", "6", "4", "8">>,
      <<"2", "1", "4", "7", "4", "8", "3", "6", "4", "8", ",", "1">>,
      <<"1", ",", "-", "2", "1", "4", "7", "4", "8", "3", "6", "4", "9">>,
      <<"1", "8", "4", "4", "6", "7", "4", "4", "0", "7", "3", "7", "0", "9",
          "5", "5", "1", "6", "1", "5", "x", "1">>,
      <<"1", "8", "4", "4", "6", "7", "4", "4", "0", "7", "3", "7", "0", "9",
          "5", "5", "1", "6", "1", "6", "x", "1">>,
      <<"C3", "A9", ",", "1">>,
      <<"1", ",", "C3", "A9">>,
      <<"1", "e", "4", "0", "0", ",", "1", "e", "-", "4", "0", "0">>,
      <<"0", ".", "1", "e", "1", ",", "0", "0", ".", "1", "0">>,
      <<"1", "e", "9", "9", "9", "9", "9", "9", "9", "9", "9", "9", "9", ",",
          "1", "e", "-", "6", "5", "5", "3", "6", "0">>,
      <<"1", "-", "1", "e", "-", "2">>,
      <<"1", "-", "1", "e", "2", "-">> }

Strings == UNION { [1..n -> Alphabet] : n \in 0..MaxLen } \cup OtherStrings

InitParse ==
    /\ pc = "parse_pair"
    /\ call \in [T : Types, s : Strings, separator : Separators]
    /\ ret = Null
    /\ NoProcess
    /\ IdleEscape

CallParsePair ==
    /\ pc = "parse_pair"
    /\ ret' = parse_pair(call.T, call.s, call.separator)
    /\ pc' = "returned"
    /\ UNCHANGED <<inputVars, pixels, x, y, escapeVars, writes, file, status,
                   stderr, call>>

SpecParse == InitParse /\ [][CallParsePair]_vars

---------------------------------------------------------------------------
(* Properties of render *)

\* render has returned to main
RenderReturned ==
    \/ pc \in {"write_image", "encode"}
    \/ status = "exit0"
    \/ stderr \in {CreateFailed, EncodeFailed}

\* the writes made to buffer index k (from 0)
WritesTo(k) == {n \in 1..Len(writes) : writes[n].index = k}

\* the image is not empty and the buffer has width*height cells
BufferFitsImage ==
    /\ Width # Big(0)
    /\ Height # Big(0)
    /\ Big(Len(pixels)) = BigMul(Width, Height)

\* C1: one call of render on a buffer of width*height cells, width > 0 and
\* height > 0, writes pixel (x, y), 0 <= x < width, 0 <= y < height, at index
\* y*width + x; no index outside the buffer is written, none is written twice,
\* and when render has returned every index 0..width*height-1 has been
\* written exactly once.
C1_EachCellWrittenOnce ==
    /\ RenderReturned => Big(Len(pixels)) = BigMul(Width, Height)
    /\ BufferFitsImage =>
          LET w == BigToNat(Width)
              h == BigToNat(Height)
          IN  /\ stderr \notin {IndexOutOfBounds, MulOverflow, AddOverflow}
              /\ \A n \in 1..Len(writes) :
                    /\ writes[n].x \in 0..(w - 1)
                    /\ writes[n].y \in 0..(h - 1)
                    /\ writes[n].index = writes[n].y * w + writes[n].x
                    /\ writes[n].index \in 0..(Len(pixels) - 1)
                    /\ \A m \in 1..Len(writes) :
                          m # n => /\ writes[m].index # writes[n].index
                                   /\ <<writes[m].x, writes[m].y>>
                                          # <<writes[n].x, writes[n].y>>
              /\ RenderReturned =>
                    \A k \in 0..(w * h - 1) : Cardinality(WritesTo(k)) = 1

\* C1's case: render has returned from a 3 x 1 image, its three cells written
C1_Witness ==
    /\ pc = "write_image"
    /\ bounds = <<Big(3), Big(1)>>
    /\ Len(writes) = 3
    /\ writes[3].index = 2

\* C3: every cell render has written holds 0 when escape_time(point, 255)
\* returned None for the pixel's point and 255 - count when it returned
\* Some(count); count lies in 0..254, so `count as u8` keeps its value and an
\* escaped pixel's cell lies in 1..255; after render every cell is such a cell.
C3_CellIsIntensity ==
    /\ \A n \in 1..Len(writes) :
          LET w    == writes[n]
              cell == pixels[w.index + 1]
          IN  /\ w.point = pixel_to_point(bounds, <<Big(w.x), Big(w.y)>>,
                                          upper_left, lower_right)
              /\ w.limit = 255
              /\ IF w.result = None THEN cell = 0
                 ELSE LET count == Unwrap(w.result)
                      IN  /\ count \in 0..254
                          /\ AsU8(count) = count
                          /\ cell = 255 - count
                          /\ cell \in 1..255
    /\ RenderReturned =>
          \A k \in 0..(Len(pixels) - 1) : WritesTo(k) # {}

\* C3's case: render has returned with a cell of a member and one of an
\* escaped point
C3_Witness ==
    /\ pc = "write_image"
    /\ \E n, m \in 1..Len(writes) :
          /\ writes[n].result = None
          /\ pixels[writes[n].index + 1] = 0
          /\ writes[m].result = Some(3)
          /\ pixels[writes[m].index + 1] = 252

\* C9: render on a buffer whose length differs from width*height fails at
\* its assertion (the assertion fails, or the product in it overflows) before
\* it writes any cell, the buffer left as it was; on a buffer of that length
\* the assertion never fails.
C9_AssertionGuardsBuffer ==
    /\ (Big(Len(pixels)) # BigMul(Width, Height) /\ pc # "render") =>
          /\ pc = "exited"
          /\ status = "panic"
          /\ stderr \in {AssertFailed, MulOverflow}
          /\ writes = << >>
          /\ \A k \in 1..Len(pixels) : pixels[k] = Fill
    /\ Big(Len(pixels)) = BigMul(Width, Height) => stderr # AssertFailed

---------------------------------------------------------------------------
(* Properties of escape_time *)

\* the orbit of 0 under z -> z*z + cc in f64: z_0 = 0, z_(k+1) = z_k * z_k + cc
RECURSIVE Orbit(_, _)
Orbit(cc, k) ==
    IF k = 0 THEN Cx(Zero(0), Zero(0))
    ELSE LET p == Orbit(cc, k - 1)
         IN  Cx(FAdd(FSub(FMul(p.re, p.re), FMul(p.im, p.im)), cc.re),
                FAdd(FAdd(FMul(p.re, p.im), FMul(p.im, p.re)), cc.im))

\* |z_k|^2 > 4
Outside(cc, k) ==
    LET p == Orbit(cc, k)
    IN  FGt(FAdd(FMul(p.re, p.re), FMul(p.im, p.im)), FromInt(4))

\* |z_j|^2 <= 4 for every j in 0..k-1
InsideBefore(cc, k) == \A j \in 0..(k - 1) : ~Outside(cc, j)

\* C2: escape_time(c, limit) returns Some(n) for the least n in 0..limit-1
\* with |z_n|^2 > 4, after exactly n updates of z, and None exactly when no
\* n in 0..limit-1 has |z_n|^2 > 4.
C2_CheckBeforeUpdate ==
    pc = "returned" =>
        IF IsSome(et)
        THEN LET n == Unwrap(et)
             IN  /\ n \in 0..(limit - 1)
                 /\ InsideBefore(c, n)
                 /\ Outside(c, n)
                 /\ updates = n
                 /\ z = Orbit(c, n)
        ELSE /\ et = None
             /\ InsideBefore(c, limit)

\* C2's case: c = 1 with limit 3 has returned None although the third update
\* took z outside (z_3 = 5)
C2_Witness ==
    /\ pc = "returned"
    /\ c = Cx(FromInt(1), FromInt(0))
    /\ limit = 3
    /\ et = None
    /\ updates = 3
    /\ z = Cx(FromInt(5), FromInt(0))

\* |c|^2 > 4, as c.norm_sqr() > 4.0 computes it
FarPoint == FGt(FAdd(FMul(c.re, c.re), FMul(c.im, c.im)), FromInt(4))

\* C5 as stated: for |c| > 2 and a positive limit escape_time returns Some(0)
C5_EscapesAtZero ==
    (pc = "returned" /\ limit > 0 /\ FarPoint) => et = Some(0)

\* C5, amended: for |c| > 2 escape_time returns Some(1) when limit >= 2 (the
\* first check is made on z = 0, the second on z = c) and None when limit < 2
C5_EscapesAtOne ==
    (pc = "returned" /\ FarPoint) =>
        et = IF limit >= 2 THEN Some(1) ELSE None

\* C5's case: a point with |c| > 2 has returned Some(1)
C5_Witness ==
    /\ pc = "returned"
    /\ FarPoint
    /\ limit >= 2
    /\ et = Some(1)

\* escape_time on its own, and the program
InitProgramOrEscape == Init \/ InitEscape

SpecProgramAndEscape == InitProgramOrEscape /\ [][Next]_vars

\* C10: escape_time never returns Some(0), whatever c and limit, and no cell
\* of render's buffer ever holds 255: each is 0 or lies in 1..254.
C10_NeverBrightest ==
    /\ et # Some(0)
    /\ \A k \in 1..Len(pixels) : pixels[k] \in 0..254
    /\ \A n \in 1..Len(writes) : writes[n].result # Some(0)

\* C10's case: render has stored 254, for a point that escaped on the second
\* check
C10_Witness ==
    \E n \in 1..Len(writes) :
        /\ writes[n].result = Some(1)
        /\ pixels[writes[n].index + 1] = 254

---------------------------------------------------------------------------
(* Properties of pixel_to_point *)

\* a*(1 - k/n) + b*(k/n) in f64
Weighted(a, b, k, n) ==
    FAdd(FMul(a, FSub(FromInt(1), FDiv(FromUsize(k), FromUsize(n)))),
         FMul(b, FDiv(FromUsize(k), FromUsize(n))))

\* Complex == Complex
CEq(a, b) == FEq(a.re, b.re) /\ FEq(a.im, b.im)

\* both coordinates are finite
FinitePoint(p) == IsFinite(p.re) /\ IsFinite(p.im)

\* the formula of pixel_to_point and the case of its test
PointFormula ==
    /\ ret.re = Weighted(call.upper_left.re, call.lower_right.re,
                         call.pixel[1], call.bounds[1])
    /\ ret.im = Weighted(call.upper_left.im, call.lower_right.im,
                         call.pixel[2], call.bounds[2])
    /\ call = TestPointCall =>
          ret = Cx(FDiv(FromInt(-1), FromInt(2)), FDiv(FromInt(-3), FromInt(4)))

\* width > 0 and height > 0
HasPixels == call.bounds[1] # Big(0) /\ call.bounds[2] # Big(0)

\* C6 as stated: pixel_to_point returns re = upper_left.re*(1 - col/width) +
\* lower_right.re*(col/width) and im = upper_left.im*(1 - row/height) +
\* lower_right.im*(row/height); for width > 0 and height > 0 pixel (0, 0)
\* maps to upper_left whatever the bounds and the viewport, and pixel
\* (25, 175) of a 100 x 200 image over (-1, 1)..(1, -1) maps to (-0.5, -0.75).
C6_PixelToPoint ==
    pc = "returned" =>
        /\ PointFormula
        /\ (call.pixel = <<Big(0), Big(0)>> /\ HasPixels)
              => CEq(ret, call.upper_left)

\* C6, amended: the same, pixel (0, 0) mapping to upper_left whatever the
\* bounds with width > 0 and height > 0 when the coordinates of both corners
\* are finite.
C6_FiniteViewport ==
    pc = "returned" =>
        /\ PointFormula
        /\ (/\ call.pixel = <<Big(0), Big(0)>>
            /\ HasPixels
            /\ FinitePoint(call.upper_left)
            /\ FinitePoint(call.lower_right)) => CEq(ret, call.upper_left)

\* C6's case: pixel (0, 0) of a 3 x 3 image whose upper left corner is
\* (0.1, 0.1) has been mapped to that corner
C6_Witness ==
    /\ pc = "returned"
    /\ call.bounds = <<Big(3), Big(3)>>
    /\ call.pixel = <<Big(0), Big(0)>>
    /\ call.upper_left = Cx(Tenth, Tenth)
    /\ call.lower_right = Cx(FromInt(1), FromInt(1))
    /\ ret = call.upper_left

---------------------------------------------------------------------------
(* Properties of parse_pair *)

\* the positions (from 1) of ch in s
Occurrences(s, ch) == {k \in 1..Len(s) : s[k] = ch}

\* the characters that are part of no numeral of any type
NeverNumeric == {",", "x"}

\* the text of s before position k, and the text after it
Before(s, k) == SubSeq(s, 1, k - 1)

After(s, k) == SubSeq(s, k + 1, Len(s))

\* the first position of s where sep stands
FirstSeparator ==
    CHOOSE k \in Occurrences(call.s, call.separator) :
        \A j \in Occurrences(call.s, call.separator) : k <= j

\* parse_pair's result as the claim gives it: Some of the two values when
\* sep occurs in s and the whole texts before and after its first
\* occurrence parse, None otherwise; None when either text is empty and when
\* the right text holds a character of no numeral
SplitsAtFirst ==
    IF Occurrences(call.s, call.separator) = {} THEN ret = None
    ELSE \E l \in {from_str(call.T, Before(call.s, FirstSeparator))} :
         \E r \in {from_str(call.T, After(call.s, FirstSeparator))} :
            /\ ret = IF l # None /\ r # None
                     THEN <<(<<l[1], r[1]>>)>>
                     ELSE None
            /\ (Before(call.s, FirstSeparator) = << >>
                \/ After(call.s, FirstSeparator) = << >>) => ret = None
            /\ (\E k \in 1..Len(After(call.s, FirstSeparator)) :
                    After(call.s, FirstSeparator)[k] \in NeverNumeric)
                  => ret = None

\* the positions of s after the first sep where sep stands again
SecondSeparators ==
    {k \in Occurrences(call.s, call.separator) : k > FirstSeparator}

\* position k of s is where a numeral of type T may have a '-': at the head
\* of the right text as the sign of an i32 or an f64, and after 'e' or 'E' as
\* the sign of an f64's exponent
MaybeMinus(T, s, k) ==
    \/ T \in {"i32", "f64"} /\ k = FirstSeparator + 1
    \/ T = "f64" /\ s[k - 1] \in {"e", "E"}

\* C7 as stated: parse_pair(s, sep) splits s at the first sep: it returns
\* Some((l, r)) if sep occurs in s and the whole text before its first
\* occurrence parses to l and the whole text after it parses to r, and None
\* otherwise: when sep is absent, when either side is empty, when the right
\* part holds garbage, and whenever sep occurs a second time.
C7_AnySecondSeparator ==
    pc = "returned" =>
        /\ SplitsAtFirst
        /\ SecondSeparators # {} => ret = None

\* C7, amended: the same, a second sep making the parse fail unless it stands
\* where the right value's numeral has that character (sep '-' before the
\* right value or in its exponent): "1--2" split at '-' is (1, -2) as i32.
C7_ParsePair ==
    pc = "returned" =>
        /\ SplitsAtFirst
        /\ (\E k \in SecondSeparators :
                ~(call.separator = "-" /\ MaybeMinus(call.T, call.s, k)))
              => ret = None

\* C7's case: "1-2-" split at the first '-' has failed on its right part
\* "2-", whose '-' is no part of a numeral
C7_Witness ==
    /\ pc = "returned"
    /\ call.s = <<"1", "-", "2", "-">>
    /\ call.separator = "-"
    /\ call.T = "usize"
    /\ ret = None

---------------------------------------------------------------------------
(* Properties of main *)

\* nothing done beyond the arguments: no buffer, no write by render, no file
NoWork ==
    /\ pixels = << >>
    /\ writes = << >>
    /\ file = "absent"

BadPixels == ~IsSome(parse_pair("usize", args[3], "x"))

BadUpperLeft == ~IsSome(parse_complex(args[4]))

BadLowerRight == ~IsSome(parse_complex(args[5]))

\* the process ended in a panic with this message, nothing done
PanickedWith(msg) ==
    /\ pc = "exited"
    /\ status = "panic"
    /\ stderr = msg
    /\ NoWork

\* the positions of main up to the argument count test
BeforeCount == {"main", "check_args"}

\* C8: a wrong argument count ends the process with the usage text and
\* status 1, and a PIXELS, UPPERLEFT or LOWERRIGHT that does not parse ends
\* it, before the buffer is allocated, render is called or the file is
\* created; the count is checked first, then PIXELS, UPPERLEFT, LOWERRIGHT.
C8_ErrorsPrecedeWork ==
    IF Len(args) # 5
    THEN pc \notin BeforeCount =>
            /\ pc = "exited"
            /\ status = "exit1"
            /\ stderr = "usage"
            /\ NoWork
    ELSE /\ (BadPixels /\ pc \notin BeforeCount \cup {"parse_bounds"}) =>
                PanickedWith("error parsing image dimensions")
         /\ (~BadPixels /\ BadUpperLeft
             /\ pc \notin BeforeCount \cup {"parse_bounds", "parse_upper_left"})
                => PanickedWith("error parsing upper-left corner point")
         /\ (~BadPixels /\ ~BadUpperLeft /\ BadLowerRight
             /\ pc \notin BeforeCount \cup {"parse_bounds", "parse_upper_left",
                                            "parse_lower_right"})
                => PanickedWith("error parsing lower-right corner point")

\* C4 as stated: at the end of the process either a complete image has been
\* written to FILE or no file has been written at all
C4_AllOrNothing ==
    pc = "exited" =>
        \/ status = "exit0" /\ file = "complete"
        \/ status # "exit0" /\ file = "absent"

\* C4, amended: a process that ends well has written a complete image; one
\* that ends on a usage error, a parse error or a failure to create FILE has
\* written no file; one that ends on an encoding failure leaves FILE created,
\* empty or with part of the image.
C4_FileAtExit ==
    /\ file = "complete" => status = "exit0"
    /\ pc = "exited" =>
          CASE status = "exit0"      -> file = "complete"
            [] stderr = EncodeFailed -> file \in {"empty", "partial"}
            [] OTHER                 -> file = "absent"

\* C4's case: the encoder failed after it had written part of the image
C4_Witness ==
    /\ pc = "exited"
    /\ status = "panic"
    /\ stderr = EncodeFailed
    /\ file = "partial"

=============================================================================
